---- MODULE Spec2Model ----
(***************************************************************************)
(* The render phase controller of PsyduckCanvas (src/unnamed/part_000):    *)
(* the component state, the refs that hold the buffers and the animation   *)
(* frame handles, the network loader, and the PREVIEW / FINAL / ENERGY     *)
(* effects with their animation callbacks.                                 *)
(*                                                                         *)
(* React semantics used: the state updates made by one continuation of the *)
(* loader are committed together; the commit runs the cleanups of every    *)
(* effect whose dependencies changed, then the bodies of those effects in  *)
(* declaration order (preview, final, energy).  Each effect body and each  *)
(* animation callback is one step.  No callback or response is handled     *)
(* while effect bodies or a queued re-render are outstanding.              *)
(***************************************************************************)
EXTENDS Integers, Sequences, FiniteSets, TLC

VARIABLES
  CAP,                  \* activation threshold (VITE_PSYDUCK_MAX_TILES || 3500)
  prefersReduced,       \* prefers-reduced-motion media query
  plan, isPreview, total, maskBitmaps, err, loading, hasFinal,   \* useState
  hasFinalNext,         \* value queued by setHasFinal, applied by the next render
  previewBufferRef, finalBufferRef, energyOutlineMaskRef,        \* useRef
  rafPreviewRef, rafFadeRef, rafEnergyRef,  \* TRUE: the handle in the ref is pending
  stepCl,               \* closure of step():  i, PREVIEW_DRAW_MAX, BATCH, plan, outline
  fadeCl,               \* closure of fade():  from, final, elapsed time, last t
  energyCl,             \* closure of tick():  base, plan
  cleanups,             \* effects whose last run returned a cleanup function
  effq,                 \* effect bodies still to run in the current commit
  visible,              \* pixels of the visible canvas
  drawn,                \* which code wrote the visible canvas in the last step
  loaderPc, deferredPc, maskList,   \* position of the loader and of the deferred mask loader
  cache,                \* localStorage entry psyduck:lastPlan:v3
  call                  \* a call of a pure function examined on its own: arguments and result

vars == <<CAP, prefersReduced, plan, isPreview, total, maskBitmaps, err, loading,
          hasFinal, hasFinalNext, previewBufferRef, finalBufferRef,
          energyOutlineMaskRef, rafPreviewRef, rafFadeRef, rafEnergyRef,
          stepCl, fadeCl, energyCl, cleanups, effq, visible, drawn,
          loaderPc, deferredPc, maskList, cache, call>>

\* fixed while the component runs (no action of the component examines a call)
envVars    == <<CAP, prefersReduced, call>>
stateVars  == <<plan, isPreview, total, maskBitmaps, err, loading, hasFinal>>
bufVars    == <<previewBufferRef, finalBufferRef, energyOutlineMaskRef>>
rafVars    == <<rafPreviewRef, rafFadeRef, rafEnergyRef>>
clVars     == <<stepCl, fadeCl, energyCl>>
loaderVars == <<loaderPc, deferredPc, maskList, cache>>
\* everything that belongs to the mounted component
componentVars == <<CAP, prefersReduced, stateVars, hasFinalNext, bufVars, rafVars, clVars,
                   cleanups, effq, visible, drawn, loaderVars>>

(* ------------------------------ bounds --------------------------------- *)
MaxFailed == 1          \* at most this many deferred shape images fail to load
FrameMs == 95           \* shortest time between two animation callbacks (ms)

(* -------------------------- program constants -------------------------- *)
DEFAULT_CAP == 3500
PREVIEW_LIMIT_MAX == 1800
PREVIEW_DRAW_LIMIT == 2000
MIN_BATCH == 120
HEADBAND_TOTAL == 1500
DURATION == 380

D2 == DURATION * DURATION

Min(a, b) == IF a < b THEN a ELSE b
Max(a, b) == IF a > b THEN a ELSE b

(* ------------------------------ inputs --------------------------------- *)
Caps == {1000, DEFAULT_CAP}
Totals == {0, 500, 1600, 4000}
PlanSizes == {0, 130, 2100}
Unlocks == {"undefined", "true", "false"}
Deltas == {FrameMs, 3 * FrameMs}

Deferred == {"eyes", "pupils", "nostrils", "hair", "headband", "beak", "feet", "outline"}
MaskNames == {"silhouette"} \cup Deferred
MaskLists == {MaskNames \ {"outline"}, MaskNames \ {"outline", "headband"},
              MaskNames \ {"outline", "silhouette"}}
MaskOutcomes == {S \in SUBSET Deferred : Cardinality(Deferred \ S) <= MaxFailed}

(* ------------------------------- values -------------------------------- *)
NoPlan == [id |-> "none", isPreview |-> FALSE, n |-> 0, unlock |-> "undefined",
           subscriberCount |-> 0]
NoBuf == [kind |-> "none", plan |-> "none", tiles |-> 0, outline |-> FALSE,
          headband |-> FALSE]
NoStep == [i |-> 0, max |-> 0, batch |-> 0, plan |-> "none", outline |-> FALSE]
NoFade == [from |-> NoBuf, final |-> NoBuf, elapsed |-> 0, t |-> -1]
NoCall == [fn |-> "none"]
NoEnergy == [base |-> NoBuf, plan |-> "none"]

Plans(id, pre) == {[id |-> id, isPreview |-> pre, n |-> n, unlock |-> u,
                    subscriberCount |-> c] :
                   n \in PlanSizes, u \in Unlocks, c \in Totals}

\* a ?? b / a || b on buffers
OrBuf(a, b) == IF a # NoBuf THEN a ELSE b

(* ------------------------- the visible canvas -------------------------- *)
\* The canvas after clearRect followed by drawImage(from) at opacity
\* fromA/D2 and drawImage(top) at opacity topA/D2; energy: the glow stack
\* of drawFrame was drawn over it.
Frame(from, fromA, top, topA, energy) ==
  [from |-> from, fromA |-> fromA, top |-> top, topA |-> topA, energy |-> energy]
Blank == Frame(NoBuf, 0, NoBuf, 0, FALSE)
Blit(buf) == Frame(NoBuf, 0, buf, D2, FALSE)
EnergyFrame(base) == Frame(NoBuf, 0, base, D2, TRUE)

\* the error render replaces the scene: canvasRef.current and frameRef.current are null
canvasMounted == ~err

\* the canvas shows exactly buffer b
Shows(v, b) ==
  /\ b # NoBuf
  /\ ~v.energy
  /\ \/ v.top = b /\ v.topA = D2
     \/ v.from = b /\ v.fromA = D2 /\ v.topA = 0

Quiescent == effq = <<>> /\ hasFinalNext = hasFinal

(* --------------------------- browser services -------------------------- *)
\* mutant: the cancellation is lost, the handle stays pending
cancelAnimationFrame_lost(h) == h

\* cancelAnimationFrame(ref.current): the handle in the ref is no longer pending
cancelAnimationFrame(h) == FALSE

\* blitBufferToVisible(buf): returns without drawing when the canvas, the
\* frame or the buffer is missing
blitBufferToVisible(buf) ==
  IF canvasMounted /\ buf # NoBuf THEN Blit(buf) ELSE visible
Wrote(buf, who) ==
  IF canvasMounted /\ buf # NoBuf THEN who ELSE "none"

(* ------------------------------- commit -------------------------------- *)
\* Dependency lists of the three effects; masksSet: setMaskBitmaps was
\* called (it always installs a new object).
PreviewDepsChanged ==
  \/ plan' # plan
  \/ ("silhouette" \in maskBitmaps') # ("silhouette" \in maskBitmaps)
  \/ ("outline" \in maskBitmaps') # ("outline" \in maskBitmaps)
FinalDepsChanged(masksSet) == plan' # plan \/ masksSet \/ total' # total
\* mutant: plan is missing from the dependency list of the energy effect
EnergyDepsChanged_noPlan == hasFinal' # hasFinal \/ total' # total

EnergyDepsChanged == hasFinal' # hasFinal \/ total' # total \/ plan' # plan

\* Render after the state updates of this step: the cleanups of the changed
\* effects run now, their bodies are queued in declaration order.
Commit(masksSet) ==
  /\ rafPreviewRef' = IF PreviewDepsChanged /\ "preview" \in cleanups
                      THEN cancelAnimationFrame(rafPreviewRef) ELSE rafPreviewRef
  /\ rafFadeRef' = IF FinalDepsChanged(masksSet) /\ "final" \in cleanups
                   THEN cancelAnimationFrame(rafFadeRef) ELSE rafFadeRef
  /\ rafEnergyRef' = IF EnergyDepsChanged /\ "energy" \in cleanups
                     THEN cancelAnimationFrame(rafEnergyRef) ELSE rafEnergyRef
  /\ effq' = (IF PreviewDepsChanged THEN <<"preview">> ELSE <<>>)
             \o (IF FinalDepsChanged(masksSet) THEN <<"final">> ELSE <<>>)
             \o (IF EnergyDepsChanged THEN <<"energy">> ELSE <<>>)
  /\ cleanups' = cleanups \ ((IF PreviewDepsChanged THEN {"preview"} ELSE {})
                   \cup (IF FinalDepsChanged(masksSet) THEN {"final"} ELSE {})
                   \cup (IF EnergyDepsChanged THEN {"energy"} ELSE {}))

\* the render queued by setHasFinal
Rerender ==
  /\ effq = <<>>
  /\ hasFinalNext # hasFinal
  /\ hasFinal' = hasFinalNext
  /\ UNCHANGED <<plan, isPreview, total, maskBitmaps, err, loading>>
  /\ Commit(FALSE)
  /\ drawn' = "none"
  /\ UNCHANGED <<envVars, hasFinalNext, bufVars, clVars, visible, loaderVars>>

(* ---------------------------- PREVIEW STAGE ---------------------------- *)
PREVIEW_DRAW_MAX(p) == Min(PREVIEW_DRAW_LIMIT, p.n)
\* mutant: the batch has no lower bound of MIN_BATCH
BATCH_noFloor(p) == PREVIEW_DRAW_MAX(p) \div 10

BATCH(p) == Max(MIN_BATCH, PREVIEW_DRAW_MAX(p) \div 10)

\* the composited preview after i tiles have been drawn on the text layer
PreviewComp(cl, i) ==
  [kind |-> "preview", plan |-> cl.plan, tiles |-> i, outline |-> cl.outline,
   headband |-> FALSE]

\* one call of step() with closure cl: draw up to BATCH tiles, compose,
\* publish and blit the composite, reschedule while tiles remain
StepBody(cl) ==
  LET i2 == Min(cl.max, cl.i + cl.batch)
      comp == PreviewComp(cl, i2)
  IN /\ stepCl' = [cl EXCEPT !.i = i2]
     /\ previewBufferRef' = comp
     /\ visible' = blitBufferToVisible(comp)
     /\ drawn' = Wrote(comp, "previewStep")
     /\ rafPreviewRef' = (i2 < cl.max)

PreviewEffect ==
  /\ effq # <<>> /\ Head(effq) = "preview"
  /\ effq' = Tail(effq)
  /\ IF ~plan.isPreview \/ "silhouette" \notin maskBitmaps
     THEN /\ rafPreviewRef' = cancelAnimationFrame(rafPreviewRef)
          /\ visible' = blitBufferToVisible(OrBuf(finalBufferRef, previewBufferRef))
          /\ drawn' = Wrote(OrBuf(finalBufferRef, previewBufferRef), "previewFallback")
          /\ cleanups' = cleanups \ {"preview"}
          /\ UNCHANGED <<previewBufferRef, stepCl>>
     ELSE /\ StepBody([i |-> 0, max |-> PREVIEW_DRAW_MAX(plan), batch |-> BATCH(plan),
                       plan |-> plan.id, outline |-> "outline" \in maskBitmaps])
          /\ cleanups' = cleanups \cup {"preview"}
  /\ UNCHANGED <<envVars, stateVars, hasFinalNext, finalBufferRef, energyOutlineMaskRef,
                 rafFadeRef, rafEnergyRef, fadeCl, energyCl, loaderVars>>

\* animation callback of the preview loop
PreviewStep ==
  /\ Quiescent
  /\ rafPreviewRef
  /\ StepBody(stepCl)
  /\ UNCHANGED <<envVars, stateVars, hasFinalNext, finalBufferRef, energyOutlineMaskRef,
                 rafFadeRef, rafEnergyRef, fadeCl, energyCl, cleanups, effq, loaderVars>>

(* ----------------------------- FINAL STAGE ----------------------------- *)
headbandActive ==
  IF plan.unlock # "undefined" THEN plan.unlock = "true" ELSE total >= HEADBAND_TOTAL

\* mutant: the hair mask is left out of the precondition
need_noHair ==
  {"silhouette", "beak", "feet", "eyes", "pupils", "nostrils"}
    \cup (IF headbandActive THEN {"headband"} ELSE {})

need ==
  {"silhouette", "hair", "beak", "feet", "eyes", "pupils", "nostrils"}
    \cup (IF headbandActive THEN {"headband"} ELSE {})

FinalReady == plan # NoPlan /\ ~plan.isPreview /\ need \subseteq maskBitmaps

\* mutant: the test of energyActive is inverted
StaticOutline_inverted == "outline" \in maskBitmaps /\ total >= CAP

\* mutant: the outline pass is drawn whatever the population
StaticOutline_always == "outline" \in maskBitmaps

\* the static outline glow pass of the composite
StaticOutline == "outline" \in maskBitmaps /\ ~(total >= CAP)

FinalComp ==
  [kind |-> "final", plan |-> plan.id, tiles |-> plan.n, outline |-> StaticOutline,
   headband |-> headbandActive]

\* mutant: the outgoing opacity eased as (1 - t)^2
AlphaOut_squared(e) == (DURATION - e) * (DURATION - e)

\* from = previewBufferRef.current || null; if (!from): show Final without a fade
\* mutant: the no-preview branch is never taken
SkipFade_never == FALSE

SkipFade == previewBufferRef = NoBuf

\* opacities (in units of 1/D2) of the two drawImage calls of fade() at
\* t = e / DURATION
AlphaOut(e) == D2 - e * e
AlphaIn(e) == e * e

\* mutant: the crossfade never marks Final ready
MarksFinal_never(t) == FALSE

\* else if (!marked) { marked = true; setHasFinal(true) }: reached at t = 1
MarksFinal(t) == ~(t < DURATION)

\* one call of fade() with closure cl, e ms after start
FadeBody(cl, e) ==
  IF ~canvasMounted
  THEN /\ rafFadeRef' = FALSE
       /\ fadeCl' = cl
       /\ UNCHANGED <<visible, hasFinalNext>>
       /\ drawn' = "none"
  ELSE LET t == Min(DURATION, e)
       IN /\ visible' = Frame(cl.from, AlphaOut(t), cl.final, AlphaIn(t), FALSE)
          /\ drawn' = "fade"
          /\ fadeCl' = [cl EXCEPT !.elapsed = t, !.t = t]
          /\ rafFadeRef' = (t < DURATION)
          /\ hasFinalNext' = IF MarksFinal(t) THEN TRUE ELSE hasFinalNext

FinalEffect ==
  /\ effq # <<>> /\ Head(effq) = "final"
  /\ effq' = Tail(effq)
  /\ IF ~FinalReady
     THEN /\ cleanups' = cleanups \ {"final"}
          /\ drawn' = "none"
          /\ UNCHANGED <<hasFinalNext, bufVars, rafVars, clVars, visible>>
     ELSE /\ rafPreviewRef' = cancelAnimationFrame(rafPreviewRef)
          /\ energyOutlineMaskRef' = ("outline" \in maskBitmaps)
          /\ finalBufferRef' = FinalComp
          /\ IF SkipFade
             THEN /\ rafFadeRef' = cancelAnimationFrame(rafFadeRef)
                  /\ visible' = blitBufferToVisible(FinalComp)
                  /\ drawn' = Wrote(FinalComp, "finalBlit")
                  /\ hasFinalNext' = TRUE
                  /\ cleanups' = cleanups \ {"final"}
                  /\ UNCHANGED fadeCl
             ELSE /\ FadeBody([from |-> previewBufferRef, final |-> FinalComp,
                               elapsed |-> 0, t |-> -1], 0)
                  /\ cleanups' = cleanups \cup {"final"}
          /\ UNCHANGED <<previewBufferRef, rafEnergyRef, stepCl, energyCl>>
  /\ UNCHANGED <<envVars, stateVars, loaderVars>>

\* animation callback of the crossfade; d: time since the previous frame
FadeTick ==
  /\ Quiescent
  /\ rafFadeRef
  /\ \E d \in Deltas : FadeBody(fadeCl, fadeCl.elapsed + d)
  /\ UNCHANGED <<envVars, stateVars, bufVars, rafPreviewRef, rafEnergyRef, stepCl,
                 energyCl, cleanups, effq, loaderVars>>

(* ----------------------------- ENERGY STAGE ---------------------------- *)
\* drawFrame(tNow) of the energy effect with captured base
DrawFrame(base) == IF canvasMounted THEN EnergyFrame(base) ELSE visible
DrewFrame == IF canvasMounted THEN "energyFrame" ELSE "none"

\* mutant: the reduced-motion preference is ignored, the loop always starts
SingleFrame_never == FALSE

\* if (prefersReduced): draw one frame and return without scheduling
SingleFrame == prefersReduced

\* mutant: the population threshold is not tested
EnergyIdle_noThreshold == ~hasFinal \/ finalBufferRef = NoBuf \/ plan = NoPlan

\* !hasFinal || !energyActive || !base || !plan
EnergyIdle == ~hasFinal \/ ~(total >= CAP) \/ finalBufferRef = NoBuf \/ plan = NoPlan

EnergyEffect ==
  /\ effq # <<>> /\ Head(effq) = "energy"
  /\ effq' = Tail(effq)
  /\ IF EnergyIdle
     THEN /\ rafEnergyRef' = cancelAnimationFrame(rafEnergyRef)
          /\ visible' = blitBufferToVisible(OrBuf(finalBufferRef, previewBufferRef))
          /\ drawn' = Wrote(OrBuf(finalBufferRef, previewBufferRef), "energyFallback")
          /\ cleanups' = cleanups \ {"energy"}
          /\ UNCHANGED energyCl
     ELSE IF ~energyOutlineMaskRef
     THEN /\ rafEnergyRef' = cancelAnimationFrame(rafEnergyRef)
          /\ drawn' = "none"
          /\ cleanups' = cleanups \ {"energy"}
          /\ UNCHANGED <<visible, energyCl>>
     ELSE IF SingleFrame
     THEN /\ rafEnergyRef' = cancelAnimationFrame(rafEnergyRef)
          /\ visible' = DrawFrame(finalBufferRef)
          /\ drawn' = DrewFrame
          /\ energyCl' = [base |-> finalBufferRef, plan |-> plan.id]
          /\ cleanups' = cleanups \cup {"energy"}
     ELSE /\ rafEnergyRef' = TRUE
          /\ energyCl' = [base |-> finalBufferRef, plan |-> plan.id]
          /\ drawn' = "none"
          /\ cleanups' = cleanups \cup {"energy"}
          /\ UNCHANGED visible
  /\ UNCHANGED <<envVars, stateVars, hasFinalNext, bufVars, rafPreviewRef, rafFadeRef,
                 stepCl, fadeCl, loaderVars>>

\* animation callback of the energy loop
EnergyTick ==
  /\ Quiescent
  /\ rafEnergyRef
  /\ visible' = DrawFrame(energyCl.base)
  /\ drawn' = DrewFrame
  /\ rafEnergyRef' = TRUE
  /\ UNCHANGED <<envVars, stateVars, hasFinalNext, bufVars, rafPreviewRef, rafFadeRef,
                 clVars, cleanups, effq, loaderVars>>

(* -------------------------------- resize ------------------------------- *)
\* mutant: the Preview buffer is preferred to the Final buffer
ResizeBuf_previewFirst == OrBuf(previewBufferRef, finalBufferRef)

\* const buf = finalBufferRef.current || previewBufferRef.current
ResizeBuf == OrBuf(finalBufferRef, previewBufferRef)

onResize ==
  /\ Quiescent
  /\ visible' = blitBufferToVisible(ResizeBuf)
  /\ drawn' = Wrote(ResizeBuf, "resize")
  /\ UNCHANGED <<envVars, stateVars, hasFinalNext, bufVars, rafVars, clVars, cleanups,
                 effq, loaderVars>>

(* ------------------------------- loader -------------------------------- *)
FULL_LIMIT == Min(CAP, total)
PREVIEW_LIMIT == Min(PREVIEW_LIMIT_MAX, FULL_LIMIT)
hasPreviewPromise == PREVIEW_LIMIT > 0
hasFullPromise == FULL_LIMIT > PREVIEW_LIMIT

\* responses of getSlots; the loader overwrites subscriberCount and isPreview
SlotPlans(id, pre) == {p \in Plans(id, pre) : p.subscriberCount = total}

\* stats answered
StatsOk ==
  /\ Quiescent
  /\ loaderPc = "stats"
  /\ \E t \in Totals : total' = t
  /\ loaderPc' = "masks"
  /\ UNCHANGED <<plan, isPreview, maskBitmaps, err, loading, hasFinal>>
  /\ Commit(FALSE)
  /\ drawn' = "none"
  /\ UNCHANGED <<envVars, hasFinalNext, bufVars, clVars, visible, deferredPc, maskList,
                 cache>>

\* the loader's continuation once the silhouette bitmap is settled: install
\* it, start the deferred loader, go on to wait for the preview plan
AfterSilhouette(silBmp) ==
  /\ maskBitmaps' = maskBitmaps \cup silBmp
  /\ deferredPc' = "loading"
  /\ IF hasPreviewPromise
     THEN loaderPc' = "preview" /\ loading' = loading
     ELSE loaderPc' = "done" /\ loading' = FALSE
  /\ UNCHANGED <<plan, isPreview, total, err, hasFinal>>
  /\ Commit(TRUE)
  /\ drawn' = "none"
  /\ UNCHANGED <<envVars, hasFinalNext, bufVars, clVars, visible, cache>>

\* the mask list answered
MasksOk ==
  /\ Quiescent
  /\ loaderPc = "masks"
  /\ \E l \in MaskLists :
       /\ maskList' = l
       /\ IF "silhouette" \in l
          THEN /\ loaderPc' = "sil"
               /\ drawn' = "none"
               /\ UNCHANGED <<envVars, stateVars, hasFinalNext, bufVars, rafVars, clVars,
                              cleanups, effq, visible, deferredPc, cache>>
          ELSE AfterSilhouette({})

\* the silhouette image loaded
SilhouetteOk ==
  /\ Quiescent
  /\ loaderPc = "sil"
  /\ AfterSilhouette({"silhouette"})
  /\ UNCHANGED maskList

\* Promise.allSettled of the deferred shape images: the fulfilled ones are installed
DeferredSettled ==
  /\ Quiescent
  /\ deferredPc = "loading"
  /\ \E ok \in MaskOutcomes :
       maskBitmaps' = maskBitmaps \cup
                        (ok \cap ((maskList \cap Deferred) \cup {"outline"}))
  /\ deferredPc' = "done"
  /\ UNCHANGED <<plan, isPreview, total, err, loading, hasFinal>>
  /\ Commit(TRUE)
  /\ drawn' = "none"
  /\ UNCHANGED <<envVars, hasFinalNext, bufVars, clVars, visible, loaderPc, maskList,
                 cache>>

\* the preview plan answered
\* mutant: the preview plan replaces whatever plan is active
KeepPlan_replace(p, previewPlan) == previewPlan

\* setPlan((p) => p ?? previewPlan)
KeepPlan(p, previewPlan) == IF p # NoPlan THEN p ELSE previewPlan

PreviewOk ==
  /\ Quiescent
  /\ loaderPc = "preview"
  /\ \E previewPlan \in SlotPlans("preview", TRUE) :
       plan' = KeepPlan(plan, previewPlan)
  /\ isPreview' = TRUE
  /\ loading' = FALSE
  /\ loaderPc' = IF hasFullPromise THEN "full" ELSE "promote"
  /\ UNCHANGED <<total, maskBitmaps, err, hasFinal>>
  /\ Commit(FALSE)
  /\ drawn' = "none"
  /\ UNCHANGED <<envVars, hasFinalNext, bufVars, clVars, visible, deferredPc, maskList,
                 cache>>

\* the full plan answered
FullOk ==
  /\ Quiescent
  /\ loaderPc = "full"
  /\ \E fullPlan \in SlotPlans("full", FALSE) :
       /\ plan' = fullPlan
       /\ cache' = fullPlan
  /\ isPreview' = FALSE
  /\ loaderPc' = "done"
  /\ UNCHANGED <<total, maskBitmaps, err, loading, hasFinal>>
  /\ Commit(FALSE)
  /\ drawn' = "none"
  /\ UNCHANGED <<envVars, hasFinalNext, bufVars, clVars, visible, deferredPc, maskList>>

\* small channels: after one animation frame the preview plan is promoted
Promote ==
  /\ Quiescent
  /\ loaderPc = "promote"
  /\ plan' = IF plan = NoPlan THEN plan
             ELSE [plan EXCEPT !.id = "promoted", !.isPreview = FALSE]
  /\ isPreview' = FALSE
  /\ hasFinal' = FALSE
  /\ hasFinalNext' = FALSE
  /\ loaderPc' = "done"
  /\ UNCHANGED <<total, maskBitmaps, err, loading>>
  /\ Commit(FALSE)
  /\ drawn' = "none"
  /\ UNCHANGED <<envVars, bufVars, clVars, visible, deferredPc, maskList, cache>>

\* catch: the stats, mask list, silhouette, preview or full request failed
LoaderFailed ==
  /\ Quiescent
  /\ loaderPc \in {"stats", "masks", "sil", "preview", "full"}
  /\ err' = TRUE
  /\ loading' = FALSE
  /\ loaderPc' = "failed"
  /\ visible' = Blank
  /\ drawn' = "none"
  /\ UNCHANGED <<envVars, plan, isPreview, total, maskBitmaps, hasFinal, hasFinalNext,
                 bufVars, rafVars, clVars, cleanups, effq, deferredPc, maskList, cache>>

(* ---------------------------- specification ---------------------------- *)
\* After the mount render and the instant-paint effect (readCachedPlan)
\* the state of the component after its first render, given the cache
Mount ==
  /\ plan = cache
  /\ isPreview = FALSE
  /\ total = cache.subscriberCount
  /\ maskBitmaps = {}
  /\ err = FALSE
  /\ loading = (cache = NoPlan)
  /\ hasFinal = FALSE
  /\ hasFinalNext = FALSE
  /\ previewBufferRef = NoBuf
  /\ finalBufferRef = NoBuf
  /\ energyOutlineMaskRef = FALSE
  /\ rafPreviewRef = FALSE
  /\ rafFadeRef = FALSE
  /\ rafEnergyRef = FALSE
  /\ stepCl = NoStep
  /\ fadeCl = NoFade
  /\ energyCl = NoEnergy
  /\ cleanups = {}
  /\ effq = <<"preview", "final", "energy">>
  /\ visible = Blank
  /\ drawn = "none"
  /\ loaderPc = "stats"
  /\ deferredPc = "idle"
  /\ maskList = {}

Init ==
  /\ CAP \in Caps
  /\ prefersReduced \in BOOLEAN
  /\ cache \in {NoPlan} \cup Plans("cached", FALSE)
  /\ Mount
  /\ call = NoCall

Next ==
  \/ Rerender
  \/ PreviewEffect
  \/ PreviewStep
  \/ FinalEffect
  \/ FadeTick
  \/ EnergyEffect
  \/ EnergyTick
  \/ onResize
  \/ StatsOk
  \/ MasksOk
  \/ SilhouetteOk
  \/ DeferredSettled
  \/ PreviewOk
  \/ FullOk
  \/ Promote
  \/ LoaderFailed

Spec == Init /\ [][Next]_vars

\* the browser keeps calling the crossfade's animation callback, and React
\* runs the queued render and the effect bodies of every commit
FairSpec ==
  /\ Spec
  /\ WF_vars(FadeTick)
  /\ WF_vars(Rerender)
  /\ WF_vars(PreviewEffect) /\ WF_vars(FinalEffect) /\ WF_vars(EnergyEffect)

(* ----------------- tile classification (FINAL STAGE) ------------------- *)
\* The masks are MaskW x MaskH alpha arrays indexed by pixel (the alpha byte
\* of pixel p is data[p * 4 + 3]); coordinates are given in half units, so
\* that x2 stands for the number x2 / 2.
MaskW == 2
MaskH == 2

Pixels == 0 .. (MaskW * MaskH - 1)
Layers == {"body", "hair", "headband", "beak", "feet"}
Kinds  == {"text", "image"}
Shapes == {"empty", "dot", "full"}
Xs2 == -3 .. (2 * MaskW + 1)
Ys2 == -3 .. (2 * MaskH + 1)

\* alpha data of a mask: nothing, one opaque pixel, or faintly set everywhere
MaskData(shape, dot) ==
  [p \in Pixels |-> IF shape = "full" THEN 1
                    ELSE IF shape = "dot" /\ p = dot THEN 255
                    ELSE 0]

\* Math.round of the number v2 / 2 (halves round towards +Infinity)
MathRound(v2) == (v2 + 1) \div 2

\* mutant: the coordinate is rounded but not clamped
Clamp_none(v, hi) == v

\* Math.max(0, Math.min(hi, v))
Clamp(v, hi) == Max(0, Min(hi, v))

\* pixel index that the tester reads for the point (x2/2, y2/2)
PixelIndex(x2, y2) ==
  LET xi == Clamp(MathRound(x2), MaskW - 1)
      yi == Clamp(MathRound(y2), MaskH - 1)
  IN yi * MaskW + xi

\* data[i] of a typed array: undefined outside the array, and undefined > 0
\* is false, so the read counts as 0
ReadAlpha(data, i) == IF i \in DOMAIN data THEN data[i] ELSE 0

\* the tester returned by insideFactory(maskCanvas)
inside(data, x2, y2) == ReadAlpha(data, PixelIndex(x2, y2)) > 0

\* mutant: the beak is tested before the hair
bucket_beakFirst(c) ==
  IF inside(c.beakMask, c.x2, c.y2) THEN "beak"
  ELSE IF inside(c.hairMask, c.x2, c.y2) THEN "hair"
  ELSE IF c.headbandActive /\ inside(c.headbandMask, c.x2, c.y2) THEN "headband"
  ELSE IF inside(c.feetMask, c.x2, c.y2) THEN "feet"
  ELSE "body"

\* the layer chosen for a text tile
bucket(c) ==
  IF inside(c.hairMask, c.x2, c.y2) THEN "hair"
  ELSE IF c.headbandActive /\ inside(c.headbandMask, c.x2, c.y2) THEN "headband"
  ELSE IF inside(c.beakMask, c.x2, c.y2) THEN "beak"
  ELSE IF inside(c.feetMask, c.x2, c.y2) THEN "feet"
  ELSE "body"

\* the tile's calls of the testers: inHair always, the others while no
\* earlier test succeeded; every tester reads one pixel
Reads(c) ==
  LET h  == inside(c.hairMask, c.x2, c.y2)
      hb == c.headbandActive /\ inside(c.headbandMask, c.x2, c.y2)
      b  == inside(c.beakMask, c.x2, c.y2)
  IN {<<"hair", PixelIndex(c.x2, c.y2)>>}
       \cup (IF ~h /\ c.headbandActive THEN {<<"headband", PixelIndex(c.x2, c.y2)>>} ELSE {})
       \cup (IF ~h /\ ~hb THEN {<<"beak", PixelIndex(c.x2, c.y2)>>} ELSE {})
       \cup (IF ~h /\ ~hb /\ ~b THEN {<<"feet", PixelIndex(c.x2, c.y2)>>} ELSE {})

\* one item of the plan against one set of masks
ClassifyCalls ==
  { [fn |-> "classify", kind |-> k, x2 |-> x, y2 |-> y, headbandActive |-> a,
     hairMask |-> MaskData(sh[1], d), headbandMask |-> MaskData(sh[2], d),
     beakMask |-> MaskData(sh[3], d), feetMask |-> MaskData(sh[4], d),
     done |-> FALSE, layers |-> {}, reads |-> {}] :
       k \in Kinds, x \in Xs2, y \in Ys2, a \in BOOLEAN, d \in Pixels,
       sh \in [1..4 -> Shapes] }

\* one pass of the loop over the items: a text item is drawn on the layer of
\* its bucket, any other item is skipped
Classify ==
  /\ call.fn = "classify" /\ ~call.done
  /\ call' = IF call.kind # "text"
             THEN [call EXCEPT !.done = TRUE]
             ELSE [call EXCEPT !.done = TRUE, !.layers = {bucket(call)},
                                !.reads = Reads(call)]
  /\ UNCHANGED componentVars

\* no component is running beside the call
NoComponent ==
  /\ CAP = DEFAULT_CAP
  /\ prefersReduced = FALSE
  /\ cache = NoPlan
  /\ Mount

ClassifyInit == NoComponent /\ call \in ClassifyCalls

ClassifySpec == ClassifyInit /\ [][Classify]_vars

(* ------------------------------ fast cache ----------------------------- *)
\* Times are in milliseconds from an origin shortly before the entries were
\* written; readCachedPlan only uses the difference of two times.
CACHE_TTL_MS == 30 * 60 * 1000

Nows == {2000000, 3800000, 3800001, 5800001}
CachedAts == {0, 2000000, 2000001, 4000000}

\* what localStorage holds under CACHE_KEY: access "throws" when getItem
\* raises; raw is null, the empty string, text that is not JSON, or JSON text
\* whose value (json) is null, a number, or an object with or without the
\* fields cachedAt and plan
Entry(access, raw, json, hasCachedAt, cachedAt, hasPlan) ==
  [access |-> access, raw |-> raw, json |-> json, hasCachedAt |-> hasCachedAt,
   cachedAt |-> cachedAt, hasPlan |-> hasPlan]

Storages ==
  {Entry("throws", "null", "null", FALSE, 0, FALSE)}
    \cup {Entry("ok", r, "null", FALSE, 0, FALSE) : r \in {"null", "empty", "garbage"}}
    \cup {Entry("ok", "json", j, FALSE, 0, FALSE) : j \in {"null", "number"}}
    \cup {Entry("ok", "json", "object", FALSE, 0, p) : p \in BOOLEAN}
    \cup {Entry("ok", "json", "object", TRUE, c, p) : c \in CachedAts, p \in BOOLEAN}

Returned(v) == [outcome |-> "returned", value |-> v]
Raised == [outcome |-> "raised", value |-> "null"]

\* Date.now() - data.cachedAt > CACHE_TTL_MS
Expired(now, cachedAt) == now - cachedAt > CACHE_TTL_MS

\* the statements inside the try block
TryBlock(st, now) ==
  IF st.access = "throws" THEN Raised                       \* getItem raises
  ELSE IF st.raw \in {"null", "empty"} THEN Returned("null")    \* !raw
  ELSE IF st.raw = "garbage" THEN Raised                    \* JSON.parse raises
  ELSE IF st.json = "null" THEN Returned("null")            \* !data
  ELSE IF st.json # "object" \/ ~st.hasCachedAt \/ st.cachedAt = 0
       THEN Returned("null")                                \* !data.cachedAt
  ELSE IF Expired(now, st.cachedAt) THEN Returned("null")
  ELSE Returned(IF st.hasPlan THEN "plan" ELSE "null")      \* data.plan || null

\* mutant: no catch clause, the exception leaves the function
Catch_rethrow(r) == r

\* catch { return null }
Catch(r) == IF r.outcome = "raised" THEN Returned("null") ELSE r

readCachedPlan(st, now) == Catch(TryBlock(st, now))

CacheCalls ==
  { [fn |-> "readCachedPlan", storage |-> st, now |-> n, done |-> FALSE,
     outcome |-> "pending", value |-> "null"] : st \in Storages, n \in Nows }

ReadCache ==
  /\ call.fn = "readCachedPlan" /\ ~call.done
  /\ call' = [call EXCEPT !.done = TRUE,
                          !.outcome = readCachedPlan(call.storage, call.now).outcome,
                          !.value = readCachedPlan(call.storage, call.now).value]
  /\ UNCHANGED componentVars

CacheInit == NoComponent /\ call \in CacheCalls

CacheSpec == CacheInit /\ [][ReadCache]_vars

(* ---------------------- energy working resolution ----------------------- *)
ENERGY_MAX_DIM == 520

\* plan widths and heights, in pixels
Dims == {1, 300, 520, 521, 600, 742, 743, 744, 1000, 2000}

\* Math.round of the fraction a / b (b > 0): halves round towards +Infinity
RoundDiv(a, b) == (2 * a + b) \div (2 * b)

\* Math.round(v * energyScale) with energyScale = max(0.7, min(1, 520 / maxDim)):
\* the scale is 1 up to 520, 520 / maxDim while that is at least 7/10, else 7/10
Scaled(v, maxDim) ==
  IF maxDim <= ENERGY_MAX_DIM THEN v
  ELSE IF 10 * ENERGY_MAX_DIM >= 7 * maxDim THEN RoundDiv(v * ENERGY_MAX_DIM, maxDim)
  ELSE RoundDiv(7 * v, 10)

\* eW or eH
EnergyDim(v, maxDim) == Max(1, Scaled(v, maxDim))

EnergySizeCalls ==
  { [fn |-> "energySize", w |-> w, h |-> h, done |-> FALSE, eW |-> 0, eH |-> 0] :
      w \in Dims, h \in Dims }

EnergySize ==
  /\ call.fn = "energySize" /\ ~call.done
  /\ call' = [call EXCEPT !.done = TRUE,
                          !.eW = EnergyDim(call.w, Max(call.w, call.h)),
                          !.eH = EnergyDim(call.h, Max(call.w, call.h))]
  /\ UNCHANGED componentVars

EnergySizeInit == NoComponent /\ call \in EnergySizeCalls

EnergySizeSpec == EnergySizeInit /\ [][EnergySize]_vars

(* -------------------------------- hash2i -------------------------------- *)
\* A 32-bit word is kept as two 16-bit halves, hi * 65536 + lo.
H16 == 65536

Word(hi, lo) == [hi |-> hi, lo |-> lo]

\* bitwise exclusive or of two numbers of n bits
RECURSIVE Xor(_, _, _)
Xor(a, b, n) ==
  IF n = 0 THEN 0
  ELSE (((a % 2) + (b % 2)) % 2) + 2 * Xor(a \div 2, b \div 2, n - 1)

XorW(u, v) == Word(Xor(u.hi, v.hi, 16), Xor(u.lo, v.lo, 16))

\* the product of two 16-bit numbers as a 32-bit word
Mul16(a, b) ==
  LET p1 == (a \div 256) * b
      p0 == (a % 256) * b
      s  == ((p1 % 256) * 256) + p0
  IN Word(((p1 \div 256) + (s \div H16)) % H16, s % H16)

\* Math.imul(u, v): the low 32 bits of the product
imul(u, v) ==
  LET ll == Mul16(u.lo, v.lo)
  IN Word((ll.hi + Mul16(u.lo, v.hi).lo + Mul16(u.hi, v.lo).lo) % H16, ll.lo)

\* n >>> 13 and n >>> 16
Shr13(u) == Word(u.hi \div 8192, ((u.hi % 8192) * 8) + (u.lo \div 8192))
Shr16(u) == Word(0, u.hi)

\* mutant: the result stays a signed 32-bit integer
ToUint32_signed(u) ==
  IF u.hi >= 32768 THEN [neg |-> TRUE, hi |-> u.hi, lo |-> u.lo]
  ELSE [neg |-> FALSE, hi |-> u.hi, lo |-> u.lo]

\* (...) >>> 0: the word read as an unsigned number
ToUint32(u) == [neg |-> FALSE, hi |-> u.hi, lo |-> u.lo]

\* the number n of hash2i(x, y, seed), which returns n / 4294967295
hash2i(x, y, seed) ==
  LET n1 == XorW(XorW(imul(x, Word(5718, 26545)), imul(y, Word(10196, 60207))), seed)
      n2 == imul(XorW(n1, Shr13(n1)), Word(19441, 40801))
  IN ToUint32(XorW(n2, Shr16(n2)))

HashXs == {Word(0, 0), Word(0, 1), Word(0, 2), Word(0, 5), Word(0, 217),
           Word(65535, 65533), Word(32768, 0), Word(65535, 65535),
           Word(24783, 18847), Word(28755, 28864)}
HashYs == {Word(0, 0), Word(0, 1), Word(0, 2), Word(0, 7), Word(65535, 65535)}
HashSeeds == {Word(0, 1337), Word(0, 0)}

HashCalls ==
  { [fn |-> "hash2i", x |-> x, y |-> y, seed |-> s, done |-> FALSE,
     n |-> [neg |-> FALSE, hi |-> 0, lo |-> 0]] :
      x \in HashXs, y \in HashYs, s \in HashSeeds }

Hash ==
  /\ call.fn = "hash2i" /\ ~call.done
  /\ call' = [call EXCEPT !.done = TRUE, !.n = hash2i(call.x, call.y, call.seed)]
  /\ UNCHANGED componentVars

HashInit == NoComponent /\ call \in HashCalls

HashSpec == HashInit /\ [][Hash]_vars

(* ------------------------ bitmapToAlphaMaskCanvas ----------------------- *)
\* The luminance is computed in IEEE double arithmetic.  Every double that
\* occurs is a multiple of 2^-56 below 256; it is kept as that multiple, a
\* natural number below 2^64 written in three limbs of 22 bits, least first.
LIMB == 4194304

\* the doubles 0.2126, 0.7152 and 0.0722 in units of 2^-56
LUM_R == <<2174328, 3395708, 870>>
LUM_G == <<1664296, 1926024, 2929>>
LUM_B == <<355677, 3066875, 295>>

Channels == {0, 1, 5, 128, 254, 255}
Thresholds == {0, 127, 254}

\* exact product with a channel value k <= 255
MulSmall(X, k) ==
  LET t0 == X[1] * k
      t1 == (X[2] * k) + (t0 \div LIMB)
      t2 == (X[3] * k) + (t1 \div LIMB)
  IN <<t0 % LIMB, t1 % LIMB, t2>>

\* exact sum
AddBig(X, Y) ==
  LET t0 == X[1] + Y[1]
      t1 == X[2] + Y[2] + (t0 \div LIMB)
      t2 == X[3] + Y[3] + (t1 \div LIMB)
  IN <<t0 % LIMB, t1 % LIMB, t2>>

RECURSIVE BitLen(_)
BitLen(n) == IF n = 0 THEN 0 ELSE 1 + BitLen(n \div 2)

RECURSIVE Pow2(_)
Pow2(d) == IF d = 0 THEN 1 ELSE 2 * Pow2(d - 1)

BitLength(X) ==
  IF X[3] > 0 THEN 44 + BitLen(X[3])
  ELSE IF X[2] > 0 THEN 22 + BitLen(X[2])
  ELSE BitLen(X[1])

\* the result of a double operation: the exact value rounded to 53
\* significant bits, ties to even
RoundDouble(X) ==
  IF BitLength(X) <= 53 THEN X
  ELSE LET u == Pow2(BitLength(X) - 53)
           r == X[1] % u
           q == X[1] \div u
           base == <<X[1] - r, X[2], X[3]>>
       IN IF 2 * r > u \/ (2 * r = u /\ q % 2 = 1)
          THEN AddBig(base, <<u, 0, 0>>)
          ELSE base

\* (0.2126 * r + 0.7152 * g + 0.0722 * b) | 0
Lum(r, g, b) ==
  LET pr == RoundDouble(MulSmall(LUM_R, r))
      pg == RoundDouble(MulSmall(LUM_G, g))
      pb == RoundDouble(MulSmall(LUM_B, b))
      s  == RoundDouble(AddBig(RoundDouble(AddBig(pr, pg)), pb))
  IN s[3] \div 4096

\* the loop body for one pixel
AlphaPixel(px, threshold) ==
  LET lum == Lum(px.r, px.g, px.b)
  IN [r |-> 0, g |-> 0, b |-> 0, a |-> IF lum <= threshold THEN 0 ELSE lum]

\* a source of one colour, rasterized to MaskW x MaskH
AlphaMaskCalls ==
  { [fn |-> "bitmapToAlphaMaskCanvas", threshold |-> t, done |-> FALSE,
     d |-> [p \in Pixels |-> [r |-> r, g |-> g, b |-> b, a |-> 255]]] :
      r \in Channels, g \in Channels, b \in Channels, t \in Thresholds }

bitmapToAlphaMaskCanvas ==
  /\ call.fn = "bitmapToAlphaMaskCanvas" /\ ~call.done
  /\ call' = [call EXCEPT !.done = TRUE,
                          !.d = [p \in Pixels |-> AlphaPixel(call.d[p], call.threshold)]]
  /\ UNCHANGED componentVars

AlphaMaskInit == NoComponent /\ call \in AlphaMaskCalls

AlphaMaskSpec == AlphaMaskInit /\ [][bitmapToAlphaMaskCanvas]_vars

(* --------------------------- dilateAlphaMask1x -------------------------- *)
\* masks whose covered pixels are all faint or all strong
DilateMasks == [Pixels -> {0, 1}] \cup [Pixels -> {0, 200}]
Radii == {0, 1, 2}
\* how the canvas rounds the blended alpha: downwards or to the nearest
Roundings == {"floor", "nearest"}

\* source-over blending of the alpha channel: s over d
Over(s, d, rounding) ==
  IF rounding = "floor" THEN s + ((d * (255 - s)) \div 255)
  ELSE s + (((2 * d * (255 - s)) + 255) \div 510)

\* octx.drawImage(maskCanvas, dx, dy) onto the alpha data out
drawImage(out, src, dx, dy, rounding) ==
  [p \in Pixels |->
     LET sx == (p % MaskW) - dx
         sy == (p \div MaskW) - dy
         s  == IF sx \in 0..(MaskW - 1) /\ sy \in 0..(MaskH - 1)
               THEN src[sy * MaskW + sx] ELSE 0
     IN Over(s, out[p], rounding)]

\* mutant: the offset (0, 0) is left out
Offsets_noCentre(radius) ==
  LET n == 2 * radius + 1
      all == [i \in 1..(n * n) |-> <<((i - 1) % n) - radius, ((i - 1) \div n) - radius>>]
  IN SelectSeq(all, LAMBDA o : o # <<0, 0>>)

\* the offsets <<dx, dy>> in the order of the two loops
Offsets(radius) ==
  LET n == 2 * radius + 1
  IN [i \in 1..(n * n) |-> <<((i - 1) % n) - radius, ((i - 1) \div n) - radius>>]

RECURSIVE DrawAll(_, _, _, _)
DrawAll(out, src, offs, rounding) ==
  IF offs = <<>> THEN out
  ELSE DrawAll(drawImage(out, src, Head(offs)[1], Head(offs)[2], rounding),
               src, Tail(offs), rounding)

\* the returned canvas: the input itself for radius <= 0, else a new canvas
dilateAlphaMask1x(mask, radius, rounding) ==
  IF radius <= 0 THEN [same |-> TRUE, data |-> mask]
  ELSE [same |-> FALSE,
        data |-> DrawAll([p \in Pixels |-> 0], mask, Offsets(radius), rounding)]

DilateCalls ==
  { [fn |-> "dilateAlphaMask1x", mask |-> m, radius |-> r, rounding |-> o,
     done |-> FALSE, out |-> [same |-> FALSE, data |-> [p \in Pixels |-> 0]]] :
      m \in DilateMasks, r \in Radii, o \in Roundings }

Dilate ==
  /\ call.fn = "dilateAlphaMask1x" /\ ~call.done
  /\ call' = [call EXCEPT !.done = TRUE,
                          !.out = dilateAlphaMask1x(call.mask, call.radius, call.rounding)]
  /\ UNCHANGED componentVars

DilateInit == NoComponent /\ call \in DilateCalls

DilateSpec == DilateInit /\ [][Dilate]_vars

(* --------------------------- loader teardown ---------------------------- *)
\* The cleanup of the loader effect sets alive to false while requests may
\* still be in flight.  The flag is carried by the variable call; the
\* component's own steps are those of Next and run while the loader is alive.
LoaderAlive == [fn |-> "loader", alive |-> TRUE]

alive == call.alive

\* return () => { alive = false }
Teardown ==
  /\ Quiescent
  /\ alive
  /\ call' = [call EXCEPT !.alive = FALSE]
  /\ UNCHANGED componentVars

LiveStep == alive /\ Next

\* a response arrives after the teardown: if (!alive) return
StaleResponse ==
  /\ ~alive
  /\ loaderPc \in {"stats", "masks", "sil", "preview", "full", "promote"}
  /\ loaderPc' = "done"
  /\ UNCHANGED <<envVars, stateVars, hasFinalNext, bufVars, rafVars, clVars, cleanups,
                 effq, visible, drawn, deferredPc, maskList, cache>>

\* the deferred images settle after the teardown: if (!alive) return
StaleDeferred ==
  /\ ~alive
  /\ deferredPc = "loading"
  /\ deferredPc' = "done"
  /\ UNCHANGED <<envVars, stateVars, hasFinalNext, bufVars, rafVars, clVars, cleanups,
                 effq, visible, drawn, loaderPc, maskList, cache>>

\* a request fails after the teardown: the catch clause does not test alive
StaleFailure == ~alive /\ LoaderFailed

TeardownInit ==
  /\ CAP \in Caps
  /\ prefersReduced = FALSE
  /\ cache \in {NoPlan} \cup Plans("cached", FALSE)
  /\ Mount
  /\ call = LoaderAlive

TeardownNext ==
  \/ LiveStep
  \/ Teardown
  \/ StaleResponse
  \/ StaleDeferred
  \/ StaleFailure

TeardownSpec == TeardownInit /\ [][TeardownNext]_vars

(* ------------------------------- claims -------------------------------- *)
\* C1: once a Final buffer has been composed (the plan was non-preview and
\* every required mask present), no Preview callback is pending and no
\* Preview batch step draws or blits, for the plan instance the Final was
\* composed for or any later one: the Preview loop is cancelled when Final
\* composes and is never rescheduled.
C1_NoPreviewAfterFinal ==
  finalBufferRef # NoBuf => ~rafPreviewRef /\ drawn # "previewStep"

\* a Preview loop with tiles left to draw was superseded by a Final composition
C1_Witness ==
  /\ finalBufferRef # NoBuf
  /\ previewBufferRef # NoBuf
  /\ stepCl.i < stepCl.max
  /\ ~rafPreviewRef

\* C2: at most one of the Preview batch loop, the crossfade loop and the
\* Energy loop has a pending animation callback.
C2_OneLoopPending ==
  /\ ~(rafPreviewRef /\ rafFadeRef)
  /\ ~(rafPreviewRef /\ rafEnergyRef)
  /\ ~(rafFadeRef /\ rafEnergyRef)

\* the crossfade loop runs after it superseded a Preview loop that had tiles left
C2_Witness ==
  /\ rafFadeRef
  /\ fadeCl.elapsed > 0
  /\ stepCl.i < stepCl.max

\* the masks the Final stage requires for the current plan and population
RequiredMasks ==
  {"silhouette", "hair", "beak", "feet", "eyes", "pupils", "nostrils"}
    \cup (IF headbandActive THEN {"headband"} ELSE {})
PlanIsFull == plan # NoPlan /\ ~plan.isPreview
FinalRuns == effq # <<>> /\ Head(effq) = "final"

\* C3: while a crossfade callback is pending only the crossfade loop writes
\* the visible canvas, and while an Energy callback is pending only the
\* Energy loop writes it (writes of the resize handler are not counted).
C3_ExclusiveWriter ==
  /\ rafFadeRef => drawn \in {"none", "fade", "resize"}
  /\ rafEnergyRef => drawn \in {"none", "energyFrame", "resize"}

\* C4: the Final buffer changes only in a run of the Final effect that finds
\* a non-preview plan and every required mask loaded; a run that finds the
\* plan preview or a required mask missing changes no buffer, cancels no
\* loop, queues nothing and draws nothing.
C4_FinalAllOrNothing ==
  [][ /\ finalBufferRef' # finalBufferRef =>
           FinalRuns /\ PlanIsFull /\ RequiredMasks \subseteq maskBitmaps
      /\ (FinalRuns /\ ~(PlanIsFull /\ RequiredMasks \subseteq maskBitmaps)) =>
           /\ UNCHANGED <<bufVars, rafVars, visible, hasFinalNext>>
           /\ drawn' = "none" ]_vars

\* the Final effect has run with a full plan and a required mask missing:
\* there is no Final buffer and the Preview image is still shown
C4_Witness ==
  /\ Quiescent
  /\ PlanIsFull
  /\ deferredPc = "done"
  /\ ~(RequiredMasks \subseteq maskBitmaps)
  /\ finalBufferRef = NoBuf
  /\ Shows(visible, previewBufferRef)

\* C5: an Energy callback is pending or an Energy frame was drawn only when
\* the population is at least CAP, a Final buffer exists and hasFinal is set.
C5_EnergyOnlyWhenActive ==
  (rafEnergyRef \/ drawn = "energyFrame") =>
    total >= CAP /\ finalBufferRef # NoBuf /\ hasFinal

\* the Energy loop has drawn a frame and is pending again
C5_Witness == rafEnergyRef /\ drawn = "energyFrame"

\* C6: when the headband image was listed but failed to load and every other
\* shape image loaded, then once the loader has finished with a full plan a
\* Final buffer for that plan exists, composed without the headband region.
C6_HeadbandFailureProceeds ==
  ( /\ Quiescent
    /\ ~err
    /\ loaderPc = "done"
    /\ deferredPc = "done"
    /\ "headband" \in maskList
    /\ maskBitmaps = MaskNames \ {"headband"}
    /\ PlanIsFull )
  => /\ finalBufferRef # NoBuf
     /\ finalBufferRef.plan = plan.id
     /\ ~finalBufferRef.headband

\* C7: when the commit in which the crossfade started has finished, the
\* visible canvas shows exactly the Preview buffer (t = 0); the frame drawn
\* at t = 1 shows exactly the Final buffer.
C7_CrossfadeEndpoints ==
  /\ [][ (effq # <<>> /\ effq' = <<>> /\ rafFadeRef' /\ fadeCl'.t = 0) =>
           Shows(visible', fadeCl'.from) ]_vars
  /\ []( (drawn = "fade" /\ fadeCl.t = DURATION) => Shows(visible, fadeCl.final) )

\* C8 as stated: at every crossfade frame the Preview buffer is drawn with
\* opacity (1-t)^2 and the Final buffer with opacity t^2.
C8_QuadraticBoth ==
  drawn = "fade" =>
    /\ visible.fromA = (DURATION - fadeCl.t) * (DURATION - fadeCl.t)
    /\ visible.topA = fadeCl.t * fadeCl.t

\* C8 amended: at every crossfade frame, with t = min(1, elapsed/380), the
\* Preview buffer is drawn with opacity 1 - t^2 and the Final buffer with
\* opacity t^2 (opacities in units of 1/DURATION^2, t in units of 1/DURATION).
C8_ComplementaryEase ==
  drawn = "fade" =>
    /\ fadeCl.t \in 0..DURATION
    /\ visible.from = fadeCl.from /\ visible.top = fadeCl.final
    /\ visible.fromA = D2 - fadeCl.t * fadeCl.t
    /\ visible.topA = fadeCl.t * fadeCl.t

\* a crossfade frame strictly between the endpoints
C8_Witness == drawn = "fade" /\ fadeCl.t > 0 /\ fadeCl.t < DURATION

\* C9: a run of the Final effect that composes while no Preview buffer exists
\* blits the new Final buffer to the canvas (when the canvas is mounted),
\* calls setHasFinal(true) and leaves no crossfade callback pending; a
\* crossfade callback is only ever pending for a fade from a Preview buffer.
C9_NoPreviewNoFade ==
  /\ [][ (FinalRuns /\ PlanIsFull /\ RequiredMasks \subseteq maskBitmaps
            /\ previewBufferRef = NoBuf) =>
           /\ finalBufferRef' # NoBuf
           /\ canvasMounted => (visible' = Blit(finalBufferRef') /\ drawn' = "finalBlit")
           /\ hasFinalNext'
           /\ ~rafFadeRef' ]_vars
  /\ [](rafFadeRef => fadeCl.from # NoBuf)

\* Final was composed from a cached plan with no Preview buffer and blitted
C9_Witness ==
  /\ drawn = "finalBlit"
  /\ previewBufferRef = NoBuf
  /\ Shows(visible, finalBufferRef)
  /\ hasFinalNext /\ ~hasFinal

\* C10: with the population at or above CAP the Final composite has no static
\* outline pass; with all masks loaded and reduced motion off the Energy loop
\* is pending once Final is marked ready, and every Energy callback that
\* draws a frame leaves a callback pending.
C10_EnergyReplacesOutline ==
  /\ []( (finalBufferRef # NoBuf /\ total >= CAP) => ~finalBufferRef.outline )
  /\ []( (Quiescent /\ hasFinal /\ total >= CAP /\ maskBitmaps = MaskNames
            /\ ~prefersReduced) => rafEnergyRef )
  /\ [][ (rafEnergyRef /\ drawn' = "energyFrame") => rafEnergyRef' ]_vars

\* population 4000 against CAP 3500: the Energy loop is running on a Final
\* composite without the outline pass although the outline mask is loaded
C10_Witness ==
  /\ total = 4000 /\ CAP = DEFAULT_CAP
  /\ maskBitmaps = MaskNames
  /\ ~prefersReduced
  /\ hasFinal
  /\ rafEnergyRef /\ drawn = "energyFrame"
  /\ ~finalBufferRef.outline

\* C11: with the population below CAP and the outline mask loaded the Final
\* composite includes the static outline pass, and in no state with the
\* population below CAP is an Energy callback pending or an Energy frame drawn.
C11_BelowThresholdStaticOutline ==
  /\ (finalBufferRef # NoBuf /\ total < CAP /\ "outline" \in maskBitmaps)
       => finalBufferRef.outline
  /\ total < CAP => ~rafEnergyRef /\ drawn # "energyFrame" /\ ~visible.energy

\* population 500 against CAP 3500: Final is ready with the outline pass and
\* the loader has finished
C11_Witness ==
  /\ total = 500 /\ CAP = DEFAULT_CAP
  /\ Quiescent /\ hasFinal
  /\ loaderPc = "done" /\ deferredPc = "done"
  /\ finalBufferRef.outline
  /\ Shows(visible, finalBufferRef)

\* C12: with the reduced-motion preference set no Energy callback is ever
\* pending; a run of the Energy effect that passes its entry conditions (with
\* the outline data cached and the canvas mounted) draws one Energy frame of
\* the Final buffer, and Energy frames are drawn by nothing but such a run.
C12_ReducedMotionOneFrame ==
  /\ [](prefersReduced => ~rafEnergyRef)
  /\ [][ prefersReduced =>
           /\ ( /\ effq # <<>> /\ Head(effq) = "energy"
                /\ hasFinal /\ total >= CAP /\ finalBufferRef # NoBuf /\ plan # NoPlan
                /\ energyOutlineMaskRef /\ canvasMounted )
                => (drawn' = "energyFrame" /\ visible' = EnergyFrame(finalBufferRef))
           /\ drawn' = "energyFrame" =>
                (effq # <<>> /\ Head(effq) = "energy" /\ hasFinal /\ total >= CAP)
       ]_vars

\* reduced motion: the single Energy frame is on the canvas, nothing pending
C12_Witness ==
  /\ prefersReduced
  /\ drawn = "energyFrame"
  /\ visible = EnergyFrame(finalBufferRef)
  /\ ~rafEnergyRef /\ ~rafFadeRef /\ ~rafPreviewRef

\* C13: a step that replaces the plan or the masks while an Energy callback
\* is pending cancels that callback; a pending Energy callback always draws
\* from the Final buffer that is current, captured under the current plan, and
\* every Energy frame on the canvas was drawn from the current Final buffer.
C13_EnergyCancelledOnSwap ==
  /\ [][ (rafEnergyRef /\ (plan' # plan \/ maskBitmaps' # maskBitmaps))
           => ~rafEnergyRef' ]_vars
  /\ [](rafEnergyRef =>
          energyCl.base = finalBufferRef /\ energyCl.plan = plan.id)
  /\ [](drawn = "energyFrame" => visible.top = finalBufferRef)

\* the full plan has just replaced the cached plan whose Energy loop was in
\* flight: the loop is cancelled before the effects re-run
C13_Witness ==
  /\ plan.id = "full"
  /\ effq = <<"preview", "final", "energy">>
  /\ hasFinal /\ total >= CAP /\ ~prefersReduced /\ energyOutlineMaskRef
  /\ finalBufferRef.plan = "cached"
  /\ energyCl.base = finalBufferRef /\ energyCl.plan = "cached"
  /\ ~rafEnergyRef

\* C14: the error state is set only by a step in which the stats request or
\* a plan request fails, never by a failure of the mask list or of a shape
\* image.
C14_ErrorOnlyFromStatsOrPlan ==
  [][ (~err /\ err') => loaderPc \in {"stats", "preview", "full"} ]_vars

\* C15: in the error state no render loop has a pending animation callback.
C15_ErrorHaltsLoops ==
  err => ~rafPreviewRef /\ ~rafFadeRef /\ ~rafEnergyRef

\* C16: with N = min(2000, number of text tiles) and B = max(120, floor(N/10)),
\* every Preview tick (the call of step() by the effect or by an animation
\* callback) draws min(B, tiles left) new tiles, hence at most B, publishes
\* and blits the composite, and leaves a callback pending exactly when fewer
\* than N tiles are drawn; a loop that was not superseded and has nothing
\* pending has drawn exactly N tiles.
C16_PreviewBatches ==
  /\ [][ stepCl' # stepCl =>
           LET N == Min(2000, plan.n)
               B == Max(120, N \div 10)
               before == IF effq # <<>> THEN 0 ELSE stepCl.i
               now == stepCl'.i
           IN /\ stepCl'.max = N /\ stepCl'.batch = B
              /\ now - before \in 0..B
              /\ now = Min(N, before + B)
              /\ previewBufferRef'.kind = "preview" /\ previewBufferRef'.tiles = now
              /\ canvasMounted => visible' = Blit(previewBufferRef')
              /\ rafPreviewRef' <=> now < N
       ]_vars
  /\ []( (Quiescent /\ "preview" \in cleanups /\ ~rafPreviewRef)
           => (stepCl.i = Min(2000, plan.n) /\ previewBufferRef.tiles = stepCl.i) )

\* a plan of 2100 text tiles: the loop has stopped after exactly 2000 tiles
C16_Witness ==
  /\ plan.isPreview /\ plan.n = 2100
  /\ Quiescent /\ "preview" \in cleanups
  /\ ~rafPreviewRef
  /\ stepCl.i = 2000 /\ stepCl.batch = 200
  /\ drawn = "previewStep"
  /\ Shows(visible, previewBufferRef)

\* C17: a text tile goes to the first layer, in the order hair, headband
\* (only while the headband is active), beak, feet, whose mask covers the
\* tile's point, and to body when none does; in particular a tile covered by
\* both the hair and the beak mask goes to hair.
C17_HairFirst ==
  (call.done /\ call.kind = "text") =>
    LET h  == inside(call.hairMask, call.x2, call.y2)
        hb == call.headbandActive /\ inside(call.headbandMask, call.x2, call.y2)
        b  == inside(call.beakMask, call.x2, call.y2)
        f  == inside(call.feetMask, call.x2, call.y2)
    IN /\ h => call.layers = {"hair"}
       /\ (~h /\ hb) => call.layers = {"headband"}
       /\ (~h /\ ~hb /\ b) => call.layers = {"beak"}
       /\ (~h /\ ~hb /\ ~b /\ f) => call.layers = {"feet"}
       /\ (~h /\ ~hb /\ ~b /\ ~f) => call.layers = {"body"}
       /\ (h /\ b) => "beak" \notin call.layers

\* a tile covered by hair, headband (active) and beak at once was put on hair
C17_Witness ==
  /\ call.fn = "classify" /\ call.done /\ call.kind = "text"
  /\ call.headbandActive
  /\ inside(call.hairMask, call.x2, call.y2)
  /\ inside(call.headbandMask, call.x2, call.y2)
  /\ inside(call.beakMask, call.x2, call.y2)
  /\ call.layers = {"hair"}

\* C18: for a text tile at any coordinates, inside or outside the mask, every
\* mask read of the classification is at a pixel index inside the mask, the
\* pixel of the rounded and clamped coordinates, and the tile is drawn on
\* exactly one of the layers body, hair, headband, beak, feet.
C18_ClassifyInBounds ==
  (call.done /\ call.kind = "text") =>
    LET xr == (call.x2 + 1) \div 2
        yr == (call.y2 + 1) \div 2
        xi == IF xr < 0 THEN 0 ELSE IF xr > MaskW - 1 THEN MaskW - 1 ELSE xr
        yi == IF yr < 0 THEN 0 ELSE IF yr > MaskH - 1 THEN MaskH - 1 ELSE yr
    IN /\ call.reads # {}
       /\ \A r \in call.reads : r[2] \in Pixels /\ r[2] = yi * MaskW + xi
       /\ Cardinality(call.layers) = 1
       /\ call.layers \subseteq Layers

\* a tile left of and below the mask was tested at the first pixel of the
\* last row and, found there by the feet mask only, put on feet
C18_Witness ==
  /\ call.fn = "classify" /\ call.done /\ call.kind = "text"
  /\ call.x2 = -3 /\ call.y2 = 2 * MaskH + 1
  /\ call.reads = { <<m, (MaskH - 1) * MaskW>> : m \in {"hair", "beak", "feet"} }
  /\ call.layers = {"feet"}

\* C19: a resize that paints shows the Final buffer if there is one and the
\* Preview buffer otherwise, and changes nothing else: no buffer, no mask, no
\* component state, no pending callback and no closure.
C19_ResizeOnlyBlits ==
  [][ drawn' = "resize" =>
        /\ visible' = Blit(IF finalBufferRef # NoBuf THEN finalBufferRef
                           ELSE previewBufferRef)
        /\ previewBufferRef' = previewBufferRef /\ finalBufferRef' = finalBufferRef
        /\ energyOutlineMaskRef' = energyOutlineMaskRef
        /\ maskBitmaps' = maskBitmaps /\ plan' = plan
        /\ UNCHANGED <<isPreview, total, err, loading, hasFinal, hasFinalNext>>
        /\ rafPreviewRef' = rafPreviewRef /\ rafFadeRef' = rafFadeRef
        /\ rafEnergyRef' = rafEnergyRef
        /\ UNCHANGED <<stepCl, fadeCl, energyCl, cleanups, effq>>
    ]_vars

\* a resize while the Energy loop runs and both buffers exist: the Final
\* buffer is on the canvas and the loop is still pending
C19_Witness ==
  /\ drawn = "resize"
  /\ previewBufferRef # NoBuf /\ finalBufferRef # NoBuf
  /\ visible = Blit(finalBufferRef)
  /\ rafEnergyRef /\ energyCl.base = finalBufferRef

C21_EnergyLongEdge ==
  call.done => (call.eW <= 520 /\ call.eH <= 520)

\* C22 (as stated): hash(x, y, seed) = n / 4294967295 lies in [0,1): the
\* number n is never 4294967295.
C22_HashBelowOne ==
  call.done => ~(call.n.hi = 65535 /\ call.n.lo = 65535)

\* C22 (amended): hash(x, y, seed) lies in the closed interval [0,1]: n is an
\* unsigned 32-bit number, 0 <= n <= 4294967295; hash2i(0, 0) has
\* n = 2699673968 and hash2i(5, 7) has n = 1893591179.
C22_HashInUnitInterval ==
  call.done =>
    /\ ~call.n.neg /\ call.n.hi \in 0..65535 /\ call.n.lo \in 0..65535
    /\ (call.x = Word(0, 0) /\ call.y = Word(0, 0) /\ call.seed = Word(0, 1337))
         => (call.n.hi = 41193 /\ call.n.lo = 49520)
    /\ (call.x = Word(0, 5) /\ call.y = Word(0, 7) /\ call.seed = Word(0, 1337))
         => (call.n.hi = 28893 /\ call.n.lo = 59531)

\* hash2i(1624197535, 0, 1337) is exactly 1
C22_Witness ==
  /\ call.fn = "hash2i" /\ call.done
  /\ call.x = Word(24783, 18847) /\ call.y = Word(0, 0) /\ call.seed = Word(0, 1337)
  /\ call.n = [neg |-> FALSE, hi |-> 65535, lo |-> 65535]

\* C23: with threshold 0 an all-white source gives alpha 255 at every pixel
\* and an all-black source alpha 0 at every pixel, and every pixel of the
\* result has colour channels 0.
C23_WhiteOpaqueBlackClear ==
  [][ (call.fn = "bitmapToAlphaMaskCanvas" /\ ~call.done /\ call'.done) =>
        \A p \in Pixels :
          /\ call'.d[p].r = 0 /\ call'.d[p].g = 0 /\ call'.d[p].b = 0
          /\ (call.threshold = 0 /\ call.d[p].r = 255 /\ call.d[p].g = 255
                /\ call.d[p].b = 255) => call'.d[p].a = 255
          /\ (call.threshold = 0 /\ call.d[p].r = 0 /\ call.d[p].g = 0
                /\ call.d[p].b = 0) => call'.d[p].a = 0
    ]_vars

\* C24: dilate(mask, 0) returns its input mask, unchanged, and for a radius
\* r > 0 every pixel with nonzero alpha in the input has nonzero alpha in the
\* result.
C24_DilateKeepsRegion ==
  call.done =>
    /\ call.radius = 0 => (call.out.same /\ call.out.data = call.mask)
    /\ call.radius > 0 =>
         \A p \in Pixels : call.mask[p] > 0 => call.out.data[p] > 0

\* radius 1 on a mask with one faint pixel: the pixel is kept and its
\* neighbours are covered
C24_Witness ==
  /\ call.fn = "dilateAlphaMask1x" /\ call.done
  /\ call.radius = 1
  /\ call.mask[0] = 1 /\ \A p \in Pixels \ {0} : call.mask[p] = 0
  /\ \A p \in Pixels : call.out.data[p] > 0
  /\ ~call.out.same

\* C25: a crossfade in flight for a Final composition leads to the state in
\* which that crossfade has drawn its frame at t = 1 and hasFinal is true,
\* or to a newer Final composition replacing it; a crossfade that has reached
\* t = 1 has no callback pending, so it marks Final ready only once.
C25_CrossfadeCompletes ==
  /\ \A c \in {"cached", "preview", "full", "promoted"} :
       (rafFadeRef /\ fadeCl.final.plan = c)
         ~> \/ (fadeCl.final.plan = c /\ fadeCl.t = DURATION /\ hasFinal)
            \/ finalBufferRef.plan # c
  /\ []((fadeCl.t = DURATION) => (~rafFadeRef /\ hasFinalNext))

\* the crossfade of the full plan has ended at t = 1 and Final is marked ready
C25_Witness ==
  /\ fadeCl.final = finalBufferRef /\ fadeCl.from # NoBuf
  /\ fadeCl.t = DURATION
  /\ hasFinal /\ ~rafFadeRef
  /\ Shows(visible, finalBufferRef)

\* C26: while the plan stays the same preview plan, no step lowers the
\* number of tiles drawn in the Preview buffer.
C26_PreviewTilesMonotone ==
  [][ (plan.isPreview /\ plan' = plan
         /\ previewBufferRef # NoBuf /\ previewBufferRef' # NoBuf)
        => previewBufferRef'.tiles >= previewBufferRef.tiles ]_vars

\* C27: whenever a plan is present, the isPreview state equals the
\* isPreview field of the plan.
C27_FlagMatchesPlan ==
  plan # NoPlan => isPreview = plan.isPreview

\* C28: a non-preview plan is never followed by a preview plan or by no
\* plan, and the step in which the preview plan arrives while a non-preview
\* plan is active leaves the plan unchanged.
C28_NeverBackToPreview ==
  /\ [][ (plan # NoPlan /\ ~plan.isPreview)
           => (plan' # NoPlan /\ ~plan'.isPreview) ]_vars
  /\ [][ (loaderPc = "preview" /\ loaderPc' \in {"full", "promote"}
            /\ plan # NoPlan /\ ~plan.isPreview)
           => plan' = plan ]_vars

\* the preview plan has arrived and the cached plan is still the active one
C28_Witness ==
  /\ cache # NoPlan /\ plan = cache
  /\ loaderPc \in {"full", "promote"}
  /\ isPreview /\ ~loading

\* C29: once the loader is torn down, no step changes plan, total, the
\* masks, loading, err or the cache.
C29_TornDownLoaderSilent ==
  [][ ~alive => UNCHANGED <<plan, total, maskBitmaps, loading, err, cache>> ]_vars

\* C30: with reduced motion, a resize that finds the single Energy frame on
\* the canvas leaves the canvas showing the Final buffer with the energy
\* overlay.
C30_ResizeKeepsEnergy ==
  [][ (prefersReduced /\ drawn' = "resize"
         /\ hasFinal /\ total >= CAP /\ visible = EnergyFrame(finalBufferRef))
        => visible' = EnergyFrame(finalBufferRef) ]_vars

====
